---- MODULE Spec2Model ----
(***************************************************************************)
(* retrace: the tracking data-access layer (persistent/tracking.py and     *)
(* persistent/tracked_file.py) over a small file system.                   *)
(*                                                                         *)
(* One watched directory D holds the files named in Names; its metadata    *)
(* directory D/.tracking holds the registry file tracking_files.json and   *)
(* one backup copy per file name.  The session holds at most one           *)
(* TrackingDAO (the shell's _tracking_dao).  Besides the operations of the *)
(* data-access layer, the user edits and deletes files of D.               *)
(*                                                                         *)
(* Time is not modelled: every file carries the same modification time.    *)
(***************************************************************************)
EXTENDS Integers, Sequences, FiniteSets, TLC

\* ------------------------------------------------------------------ bounds

\* File contents are the one-byte strings over 0..MaxByte.
MaxByte == 1

\* backup and restore are called with at most MaxBatch file names.
MaxBatch == 2

Names == {"a", "b"}
Bytes == 0 .. MaxByte
Contents == {<<b>> : b \in Bytes}
Times == {0}


\* The file the single-file specification Spec works on.  SpecBatch calls
\* the operations with every name of Names; there the second file was never
\* tracked before and the user leaves it alone.
OneFile == {"a"}

RECURSIVE SeqsUpTo(_, _)
SeqsUpTo(names, k) ==
    IF k = 0 THEN {<<>>}
    ELSE LET shorter == SeqsUpTo(names, k - 1)
         IN shorter \cup {Append(s, n) : s \in shorter, n \in names}

Batches(names) == SeqsUpTo(names, MaxBatch)

\* --------------------------------------------------------------- constants

FOUR_KILOBYTES == 4096
METADATA_PATH_EXTENSION == ".tracking"
TRACKING_FILENAME == "tracking_files.json"

\* TrackingDAOErrorCode: the members' values are the tuples (0,) and (1,).
INVALID_TRACKING_DIRECTORY == <<0>>
INVALID_TRACKING_FILE == <<1>>
NoCode == <<>>

\* Python's None, where a str is expected.
None == <<>>

\* ------------------------------------------------------------------- paths

\* A path is the sequence of its components; absolute().as_posix() and
\* Path(...) render and read back the same components.
joinpath(path, part) == Append(path, part)
basename(path) == path[Len(path)]

Directory == <<"D">>
TrackingDirectory == joinpath(Directory, METADATA_PATH_EXTENSION)
TrackingFile == joinpath(TrackingDirectory, TRACKING_FILENAME)
SourcePath(n) == joinpath(Directory, n)
SlotPath(n) == joinpath(TrackingDirectory, n)

Paths ==
    {Directory, TrackingDirectory, TrackingFile}
        \cup {SourcePath(n) : n \in Names} \cup {SlotPath(n) : n \in Names}

\* ------------------------------------------------------------- file system

Missing == [kind |-> "missing", data |-> <<>>, mtime |-> 0]
Dir == [kind |-> "dir", data |-> <<>>, mtime |-> 0]
File(data, t) == [kind |-> "file", data |-> data, mtime |-> t]

exists(fs, path) == path \in Paths /\ fs[path].kind # "missing"
is_dir(fs, path) == path \in Paths /\ fs[path].kind = "dir"
is_file(fs, path) == path \in Paths /\ fs[path].kind = "file"
st_size(fs, path) == Len(fs[path].data)
st_mtime(fs, path) == fs[path].mtime
ctime(t) == <<"ctime", t>>

\* os.mkdir of a path whose parent exists and which does not exist itself.
mkdir(fs, path) == [fs EXCEPT ![path] = Dir]

\* open(path, "w"): the file is created or truncated, then written.
write_text(fs, path, text) == [fs EXCEPT ![path] = File(text, 0)]

\* Whether open(path, "w") succeeds: the parent is a directory and the path
\* is not one.
CanOpenForWriting(fs, path) ==
    /\ is_dir(fs, SubSeq(path, 1, Len(path) - 1))
    /\ ~is_dir(fs, path)

\* shutil.copy2(source, destination) of a regular file: a destination that
\* is a directory stands for the file of the source's name inside it; bytes
\* and modification time are copied.  A target below a file of Names that is
\* a directory is outside the model's file system and leaves it as it is.
copy2_target(fs, source, destination) ==
    IF is_dir(fs, destination) THEN joinpath(destination, basename(source))
    ELSE destination

copy2(fs, source, destination) ==
    LET target == copy2_target(fs, source, destination) IN
    IF target \in Paths THEN [fs EXCEPT ![target] = fs[source]] ELSE fs

\* ------------------------------------------------------------------ hashing

\* hashlib.sha256: the hasher accumulates the bytes it is fed, and the digest
\* stands for exactly these bytes.
RECURSIVE read_chunks(_, _)
read_chunks(data, hasher) ==
    IF data = <<>> THEN hasher
    ELSE LET n == IF Len(data) < FOUR_KILOBYTES THEN Len(data) ELSE FOUR_KILOBYTES
         IN read_chunks(SubSeq(data, n + 1, Len(data)),
                        hasher \o SubSeq(data, 1, n))

hexdigest(hasher) == <<"sha256", hasher>>

\* calculate_file_hash: a file that cannot be opened is reported on the
\* console and the function returns None.
calculate_file_hash(fs, filepath) ==
    IF is_file(fs, filepath) THEN hexdigest(read_chunks(fs[filepath].data, <<>>))
    ELSE None

\* ------------------------------------------------------------------ entries

\* A value of the dictionary TrackingDAO.files, or Absent for no key.
Absent == [kind |-> "absent"]
\* The module object persistent.tracked_file.
Module == [kind |-> "module"]

TrackedFile(filename, path, hash, size, last_modified, backup_path) ==
    [kind |-> "TrackedFile", filename |-> filename, path |-> path,
     hash |-> hash, size |-> size, last_modified |-> last_modified,
     backup_path |-> backup_path]

IsTrackedFile(entry) == entry.kind = "TrackedFile"

try_create_tracked_file(fs, filepath, backup_directory) ==
    IF ~exists(fs, filepath) \/ ~is_file(fs, filepath) THEN Absent
    ELSE TrackedFile(basename(filepath), filepath,
                     calculate_file_hash(fs, filepath),
                     st_size(fs, filepath), ctime(st_mtime(fs, filepath)),
                     backup_directory)

EmptyFiles == [n \in Names |-> Absent]
Keys(files) == {n \in Names : files[n].kind # "absent"}

\* --------------------------------------------------------------------- JSON

JStr(s) == <<"str", s>>
JNum(n) == <<"num", n>>
JNull == <<"null">>

\* The text of a file: EmptyText is the file of no bytes, Text(v) the
\* document json.dump writes for the dictionary v.
EmptyText == <<"empty">>
Text(v) == <<"json", v>>

\* dataclasses.asdict of a TrackedFile, as json.dump encodes it.
asdict(entry) ==
    [filename |-> JStr(entry.filename),
     path |-> JStr(entry.path),
     hash |-> IF entry.hash = None THEN JNull ELSE JStr(entry.hash),
     size |-> JNum(entry.size),
     last_modified |-> JStr(entry.last_modified),
     backup_path |-> JStr(entry.backup_path)]

json_dump(files) == Text([n \in Keys(files) |-> asdict(files[n])])

\* TrackedFile(**value) of a decoded JSON object.
from_dict(value) ==
    TrackedFile(value.filename[2], value.path[2],
                IF value.hash = JNull THEN None ELSE value.hash[2],
                value.size[2], value.last_modified[2], value.backup_path[2])

\* json.load raises on the file of no bytes.
json_load_fails(text) == text[1] # "json"

json_load(text) ==
    [n \in Names |-> IF n \in DOMAIN text[2] THEN from_dict(text[2][n]) ELSE Absent]

\* --------------------------------------------------------------- outcomes

Return(value) ==
    [kind |-> "return", exception |-> "", error_code |-> NoCode, value |-> value]
Raise(exception, error_code) ==
    [kind |-> "raise", exception |-> exception, error_code |-> error_code,
     value |-> None]

TrackingDAOException(error_code) == Raise("TrackingDAOException", error_code)
\* An attribute missing from a module or from an Enum class.
AttributeError == Raise("AttributeError", NoCode)
\* IsADirectoryError (PermissionError on Windows) of a copy of a directory.
OSError == Raise("OSError", NoCode)

\* --------------------------------------------------------------- TrackingDAO

is_valid(fs) ==
    /\ exists(fs, Directory) /\ is_dir(fs, Directory)
    /\ exists(fs, TrackingFile) /\ is_file(fs, TrackingFile)

\* Mutant of track: a name that is already a key is tracked again.
track_again(files, fs, filename) ==
    LET filepath == joinpath(Directory, filename) IN
    IF ~exists(fs, filepath) \/ is_dir(fs, filepath)
    THEN [files |-> files,
          out |-> TrackingDAOException(INVALID_TRACKING_FILE),
          hashed |-> {}]
    ELSE LET file == try_create_tracked_file(fs, filepath, TrackingDirectory)
         IN [files |-> [files EXCEPT ![filename] = Module],
             out |-> Return(Module),
             hashed |-> IF IsTrackedFile(file) THEN {filepath} ELSE {}]

\* Mutant of track: the path is checked for existence only, so that a
\* directory is tracked.
track_any_path(files, fs, filename) ==
    IF filename \in Keys(files)
    THEN [files |-> files, out |-> Return(files[filename]), hashed |-> {}]
    ELSE LET filepath == joinpath(Directory, filename) IN
         IF ~exists(fs, filepath)
         THEN [files |-> files,
               out |-> TrackingDAOException(INVALID_TRACKING_FILE),
               hashed |-> {}]
         ELSE LET file == try_create_tracked_file(fs, filepath, TrackingDirectory)
              IN [files |-> [files EXCEPT ![filename] = Module],
                  out |-> Return(Module),
                  hashed |-> IF IsTrackedFile(file) THEN {filepath} ELSE {}]

\* track: the new entry stored under the file name is the module
\* tracked_file, not the TrackedFile just created.
track(files, fs, filename) ==
    IF filename \in Keys(files)
    THEN [files |-> files, out |-> Return(files[filename]), hashed |-> {}]
    ELSE LET filepath == joinpath(Directory, filename) IN
         IF ~exists(fs, filepath) \/ is_dir(fs, filepath)
         THEN [files |-> files,
               out |-> TrackingDAOException(INVALID_TRACKING_FILE),
               hashed |-> {}]
         ELSE LET file == try_create_tracked_file(fs, filepath, TrackingDirectory)
              IN [files |-> [files EXCEPT ![filename] = Module],
                  out |-> Return(Module),
                  hashed |-> IF IsTrackedFile(file) THEN {filepath} ELSE {}]

\* Mutant of refreshed: the timestamp is refreshed and the hash is not.
refreshed_stale(file, fs, location) ==
    [file EXCEPT !.last_modified = ctime(st_mtime(fs, location))]

\* backup, after the copy: the entry's hash and timestamp are refreshed from
\* the source.
refreshed(file, fs, location) ==
    [file EXCEPT !.hash = calculate_file_hash(fs, location),
                 !.last_modified = ctime(st_mtime(fs, location))]

\* The loop of backup over the file names still to process; backup_files is
\* the list of names whose entries were appended so far.
RECURSIVE backup_loop(_, _, _, _)
backup_loop(files, fs, filenames, backup_files) ==
    IF filenames = <<>>
    THEN [files |-> files, fs |-> fs, out |-> Return(backup_files),
          done |-> backup_files]
    ELSE
    LET filename == Head(filenames)
        file == files[filename]
    IN
    IF file.kind = "absent"
    THEN [files |-> files, fs |-> fs,
          out |-> TrackingDAOException(INVALID_TRACKING_DIRECTORY),
          done |-> backup_files]
    ELSE IF ~IsTrackedFile(file)
    THEN [files |-> files, fs |-> fs, out |-> AttributeError,
          done |-> backup_files]
    ELSE
    LET location == file.path
        backup_location == file.backup_path
    IN
    IF \/ ~exists(fs, location)
       \/ is_dir(fs, location)
       \/ (~exists(fs, backup_location) /\ is_dir(fs, backup_location))
    THEN [files |-> files, fs |-> fs,
          out |-> TrackingDAOException(INVALID_TRACKING_FILE),
          done |-> backup_files]
    ELSE
    LET copied == copy2(fs, location, backup_location)
    IN backup_loop([files EXCEPT ![filename] = refreshed(file, copied, location)],
                   copied, Tail(filenames), Append(backup_files, filename))

\* Mutant of backup: the registry's validity is asserted after the loop.
backup_checked_late(files, fs, filenames) ==
    LET looped == backup_loop(files, fs, filenames, <<>>) IN
    IF ~is_valid(fs)
    THEN [files |-> looped.files, fs |-> looped.fs,
          out |-> TrackingDAOException(INVALID_TRACKING_DIRECTORY),
          done |-> <<>>]
    ELSE looped

\* backup; done lists the names copied and re-hashed, also when it raises.
backup(files, fs, filenames) ==
    IF ~is_valid(fs)
    THEN [files |-> files, fs |-> fs,
          out |-> TrackingDAOException(INVALID_TRACKING_DIRECTORY),
          done |-> <<>>]
    ELSE backup_loop(files, fs, filenames, <<>>)

\* Mutant of restore_file: the backup is copied over the registry file.
restore_file_onto_registry(fs, file) ==
    IF ~exists(fs, file.backup_path) THEN [fs |-> fs, out |-> Return(FALSE)]
    ELSE IF ~is_file(fs, file.backup_path) THEN [fs |-> fs, out |-> OSError]
    ELSE [fs |-> copy2(fs, file.backup_path, TrackingFile), out |-> Return(TRUE)]

\* restore_file: a backup path that exists is copied over the source.
restore_file(fs, file) ==
    IF ~exists(fs, file.backup_path) THEN [fs |-> fs, out |-> Return(FALSE)]
    ELSE IF ~is_file(fs, file.backup_path) THEN [fs |-> fs, out |-> OSError]
    ELSE [fs |-> copy2(fs, file.backup_path, file.path), out |-> Return(TRUE)]

\* The loop of restore.  TrackingDAOErrorCode has no member UNTRACKED_FILE:
\* building the exception for an untracked name raises AttributeError.
RECURSIVE restore_loop(_, _, _, _)
restore_loop(files, fs, filenames, restored_files) ==
    IF filenames = <<>> THEN [fs |-> fs, out |-> Return(restored_files)]
    ELSE
    LET filename == Head(filenames)
        file == files[filename]
    IN
    IF file.kind = "absent" THEN [fs |-> fs, out |-> AttributeError]
    ELSE IF ~IsTrackedFile(file) THEN [fs |-> fs, out |-> AttributeError]
    ELSE
    LET restored == restore_file(fs, file) IN
    IF restored.out.kind = "raise" THEN [fs |-> fs, out |-> restored.out]
    ELSE restore_loop(files, restored.fs, Tail(filenames),
                      IF restored.out.value
                      THEN Append(restored_files, filename)
                      ELSE restored_files)

restore(files, fs, filenames) ==
    IF ~is_valid(fs)
    THEN [fs |-> fs, out |-> TrackingDAOException(INVALID_TRACKING_DIRECTORY)]
    ELSE restore_loop(files, fs, filenames, <<>>)

\* save: the registry file is opened for writing, which truncates it, before
\* the entries are converted; asdict of an entry that is no TrackedFile
\* raises TypeError, which save turns into False.
save(files, fs) ==
    IF ~CanOpenForWriting(fs, TrackingFile) THEN [fs |-> fs, out |-> Return(FALSE)]
    ELSE IF \E n \in Keys(files) : ~IsTrackedFile(files[n])
    THEN [fs |-> write_text(fs, TrackingFile, EmptyText), out |-> Return(FALSE)]
    ELSE [fs |-> write_text(fs, TrackingFile, json_dump(files)),
          out |-> Return(TRUE)]

\* Mutant of load: files is emptied before the registry file is read.
load_reset(files, fs) ==
    IF ~is_file(fs, TrackingFile) THEN EmptyFiles
    ELSE IF json_load_fails(fs[TrackingFile].data) THEN EmptyFiles
    ELSE json_load(fs[TrackingFile].data)

\* Mutant of load: a registry file that cannot be opened empties files.
load_unopened_empties(files, fs) ==
    IF ~is_file(fs, TrackingFile) THEN EmptyFiles
    ELSE IF json_load_fails(fs[TrackingFile].data) THEN files
    ELSE json_load(fs[TrackingFile].data)

\* load: files is replaced when the registry file was read and parsed, and
\* is left as it was on any failure.
load(files, fs) ==
    IF ~is_file(fs, TrackingFile) THEN files
    ELSE IF json_load_fails(fs[TrackingFile].data) THEN files
    ELSE json_load(fs[TrackingFile].data)

matches_backup(files, fs, filename) ==
    IF filename \notin Keys(files)
    THEN TrackingDAOException(INVALID_TRACKING_FILE)
    ELSE IF ~IsTrackedFile(files[filename]) THEN AttributeError
    ELSE Return(files[filename].hash
                    = calculate_file_hash(fs, files[filename].path))

\* get_tracking_directory: a missing registry file is made with os.mkdir,
\* as a directory.
get_tracking_directory(fs) ==
    IF ~exists(fs, Directory) \/ is_file(fs, Directory)
    THEN [fs |-> fs, dao |-> FALSE]
    ELSE
    LET made == IF ~exists(fs, TrackingDirectory)
                THEN mkdir(fs, TrackingDirectory) ELSE fs
        made2 == IF ~exists(made, TrackingFile)
                 THEN mkdir(made, TrackingFile) ELSE made
    IN [fs |-> made2, dao |-> TRUE]

\* initialise_tracking: any exception of the setup is turned into None.
initialise_tracking(fs) ==
    IF ~exists(fs, Directory) \/ is_file(fs, Directory)
    THEN [fs |-> fs, dao |-> FALSE]
    ELSE
    LET made == IF ~exists(fs, TrackingDirectory)
                THEN mkdir(fs, TrackingDirectory) ELSE fs
    IN
    IF ~CanOpenForWriting(made, TrackingFile) THEN [fs |-> made, dao |-> FALSE]
    ELSE [fs |-> write_text(made, TrackingFile, json_dump(EmptyFiles)),
          dao |-> TRUE]

\* -------------------------------------------------------------------- state

VARIABLES
    fs,        \* the file system: the node at each path of Paths
    dao,       \* the session's TrackingDAO: whether there is one, and its files
    last,      \* the most recent call: operation, arguments, outcome, the
               \* paths it hashed, and the keys of files and the registry's
               \* validity when it was made
    hashedAt,  \* per name: by which call ("track" that inserted the entry,
               \* "backup" that returned) the entry now in files was last
               \* hashed and the source content at that time, or None
    backedUp   \* per name: the source content at the most recent backup call
               \* that returned and named it, or None

vars == <<fs, dao, last, hashedAt, backedUp>>

NoDao == [loaded |-> FALSE, files |-> EmptyFiles]
Dao(files) == [loaded |-> TRUE, files |-> files]

Call(op, args, out, hashed) ==
    [op |-> op, args |-> args, out |-> out, hashed |-> hashed,
     tracked |-> Keys(dao.files), valid |-> is_valid(fs)]

NoStamps == [n \in Names |-> None]

\* The registry files an earlier session may have left.  That session
\* tracked at most the files of OneFile; each entry is as track and backup
\* make it, for some content of the source at that time.  Its backup path is
\* the metadata directory (try_create_tracked_file) or the file of the same
\* name inside it (the documented layout).
BackupPaths(n) == {TrackingDirectory, SlotPath(n)}

SavedEntries(n) ==
    IF n \in OneFile
    THEN {Absent} \cup
         {TrackedFile(n, SourcePath(n), hexdigest(c), Len(c), ctime(0), bp) :
             c \in Contents, bp \in BackupPaths(n)}
    ELSE {Absent}

SavedRegistries ==
    {json_dump(files) :
        files \in {f \in [Names -> UNION {SavedEntries(n) : n \in Names}] :
                      \A n \in Names : f[n] \in SavedEntries(n)}}

InitialTexts == {EmptyText} \cup SavedRegistries

\* The nodes a run may start with at the source and at the backup slot of
\* name n, when the operations are called with the names of names.
SourceNodes(names, n) ==
    IF n \in names \cap OneFile
    THEN {Missing, Dir} \cup {File(c, t) : c \in Contents, t \in Times}
    ELSE IF n \in names
    THEN {Missing} \cup {File(c, t) : c \in Contents, t \in Times}
    ELSE {Missing}

SlotNodes(names, n) ==
    IF n \in names \cap OneFile
    THEN {Missing} \cup {File(c, t) : c \in Contents, t \in Times}
    ELSE {Missing}

AllNodes == {Missing, Dir} \cup {File(c, t) : c \in Contents, t \in Times}

InitOver(names) ==
    /\ \E kind \in {"dir", "file", "missing"} :
         \E sources \in [Names -> AllNodes], slots \in [Names -> AllNodes] :
         \E tracking \in {Missing, Dir} :
         \E registry \in {Missing} \cup {File(t, 0) : t \in InitialTexts} :
           /\ \A n \in Names :
                /\ sources[n] \in SourceNodes(names, n)
                /\ slots[n] \in SlotNodes(names, n)
           /\ kind # "dir" =>
                /\ tracking = Missing
                /\ \A n \in Names : sources[n] = Missing
           /\ tracking = Missing =>
                /\ registry = Missing
                /\ \A n \in Names : slots[n] = Missing
           /\ fs = [p \in Paths |->
                    IF p = Directory
                    THEN (IF kind = "dir" THEN Dir
                          ELSE IF kind = "file" THEN File(<<>>, 0) ELSE Missing)
                    ELSE IF p = TrackingDirectory THEN tracking
                    ELSE IF p = TrackingFile THEN registry
                    ELSE IF \E n \in Names : p = SourcePath(n)
                    THEN sources[basename(p)]
                    ELSE slots[basename(p)]]
    /\ dao = NoDao
    /\ last = [op |-> "none", args |-> <<>>, out |-> Return(None),
               hashed |-> {}, tracked |-> {}, valid |-> FALSE]
    /\ hashedAt = NoStamps
    /\ backedUp = NoStamps

Init == InitOver(OneFile)
InitBatch == InitOver(Names)

\* ------------------------------------------------------------------ actions

\* do_load's first step: the session's DAO becomes what
\* get_tracking_directory returns, None included.
GetTrackingDirectory ==
    LET r == get_tracking_directory(fs) IN
    /\ fs' = r.fs
    /\ dao' = IF r.dao THEN Dao(EmptyFiles) ELSE NoDao
    /\ last' = Call("get_tracking_directory", <<>>, Return(r.dao), {})
    /\ hashedAt' = NoStamps
    /\ UNCHANGED backedUp

\* do_init: the session's DAO is replaced only when initialise_tracking
\* returned one.
InitialiseTracking ==
    LET r == initialise_tracking(fs) IN
    /\ fs' = r.fs
    /\ dao' = IF r.dao THEN Dao(EmptyFiles) ELSE dao
    /\ last' = Call("initialise_tracking", <<>>, Return(r.dao), {})
    /\ hashedAt' = IF r.dao THEN NoStamps ELSE hashedAt
    /\ UNCHANGED backedUp

Load ==
    /\ dao.loaded
    /\ LET files == load(dao.files, fs) IN
       /\ dao' = Dao(files)
       /\ hashedAt' = IF files = dao.files THEN hashedAt ELSE NoStamps
    /\ last' = Call("load", <<>>, Return(None), {})
    /\ UNCHANGED <<fs, backedUp>>

Save ==
    /\ dao.loaded
    /\ LET r == save(dao.files, fs) IN
       /\ fs' = r.fs
       /\ last' = Call("save", <<>>, r.out, {})
    /\ UNCHANGED <<dao, hashedAt, backedUp>>

SourceContent(disk, n) ==
    IF is_file(disk, SourcePath(n)) THEN disk[SourcePath(n)].data ELSE None

Track(filename) ==
    /\ dao.loaded
    /\ LET r == track(dao.files, fs, filename) IN
       /\ dao' = Dao(r.files)
       /\ last' = Call("track", <<filename>>, r.out, r.hashed)
       /\ hashedAt' = IF r.files # dao.files
                       THEN [hashedAt EXCEPT
                                ![filename] = <<"track", SourceContent(fs, filename)>>]
                       ELSE hashedAt
    /\ UNCHANGED <<fs, backedUp>>

InBatch(filenames) == {filenames[i] : i \in DOMAIN filenames}

Backup(filenames) ==
    /\ dao.loaded
    /\ LET r == backup(dao.files, fs, filenames)
           done == IF r.out.kind = "return" THEN InBatch(filenames) ELSE {}
       IN
       /\ fs' = r.fs
       /\ dao' = Dao(r.files)
       /\ last' = Call("backup", filenames, r.out,
                       {dao.files[n].path : n \in InBatch(r.done)})
       /\ hashedAt' = [n \in Names |->
                          IF n \in done THEN <<"backup", SourceContent(fs, n)>>
                          ELSE hashedAt[n]]
       /\ backedUp' = [n \in Names |->
                          IF n \in done THEN SourceContent(fs, n)
                          ELSE backedUp[n]]

Restore(filenames) ==
    /\ dao.loaded
    /\ LET r == restore(dao.files, fs, filenames) IN
       /\ fs' = r.fs
       /\ last' = Call("restore", filenames, r.out, {})
    /\ UNCHANGED <<dao, hashedAt, backedUp>>

MatchesBackup(filename) ==
    /\ dao.loaded
    /\ last' = Call("matches_backup", <<filename>>,
                    matches_backup(dao.files, fs, filename),
                    IF IsTrackedFile(dao.files[filename])
                    THEN {dao.files[filename].path} ELSE {})
    /\ UNCHANGED <<fs, dao, hashedAt, backedUp>>

\* do_check calls TrackingDAO.check, which the class does not define.
Check ==
    /\ dao.loaded
    /\ last' = Call("check", <<>>, AttributeError, {})
    /\ UNCHANGED <<fs, dao, hashedAt, backedUp>>

\* The user writes new content to a file of the watched directory.
UserWrite(n, c) ==
    /\ is_dir(fs, Directory)
    /\ ~is_dir(fs, SourcePath(n))
    /\ fs[SourcePath(n)] # File(c, 0)
    /\ fs' = [fs EXCEPT ![SourcePath(n)] = File(c, 0)]
    /\ last' = Call("user", <<n>>, Return(None), {})
    /\ UNCHANGED <<dao, hashedAt, backedUp>>

\* The user deletes a file of the watched directory.
UserDelete(n) ==
    /\ is_file(fs, SourcePath(n))
    /\ fs' = [fs EXCEPT ![SourcePath(n)] = Missing]
    /\ last' = Call("user", <<n>>, Return(None), {})
    /\ UNCHANGED <<dao, hashedAt, backedUp>>

\* The user deletes the registry file.
UserDeleteRegistry ==
    /\ is_file(fs, TrackingFile)
    /\ fs' = [fs EXCEPT ![TrackingFile] = Missing]
    /\ last' = Call("user", <<>>, Return(None), {})
    /\ UNCHANGED <<dao, hashedAt, backedUp>>

\* The operations called with the names of names; the user edits the files
\* of edited.
NextOver(names, edited) ==
    \/ GetTrackingDirectory
    \/ InitialiseTracking
    \/ Load
    \/ Save
    \/ \E n \in names : Track(n)
    \/ \E b \in Batches(names) : Backup(b)
    \/ \E b \in Batches(names) : Restore(b)
    \/ \E n \in names : MatchesBackup(n)
    \/ Check
    \/ \E n \in edited, c \in Contents : UserWrite(n, c)
    \/ \E n \in edited : UserDelete(n)
    \/ UserDeleteRegistry

Next == NextOver(OneFile, OneFile)
NextBatch == NextOver(Names, OneFile)

Spec == Init /\ [][Next]_vars
SpecBatch == InitBatch /\ [][NextBatch]_vars

\* ------------------------------------------------------------------- claims

\* What a restart sees: a fresh registry from get_tracking_directory, then
\* load.
Restarted(disk) == load(EmptyFiles, get_tracking_directory(disk).fs)

\* The call last made was track of a name that was no key of files, and it
\* returned.
TrackedAfresh(n) ==
    /\ last.op = "track" /\ last.args = <<n>>
    /\ n \notin last.tracked
    /\ last.out.kind = "return"

\* The call last made was a backup naming n, and it returned.
BackedUpNow(n) ==
    /\ last.op = "backup" /\ n \in InBatch(last.args)
    /\ last.out.kind = "return"

ReturnsTrue(out) == out.kind = "return" /\ out.value = TRUE
ReturnsFalse(out) == out.kind = "return" /\ out.value = FALSE

\* C1: right after track(n) succeeded on a regular file that was not tracked,
\* matches_backup(n) returns True.
C1_TrackThenMatches ==
    \A n \in Names :
        TrackedAfresh(n) => ReturnsTrue(matches_backup(dao.files, fs, n))

\* C2: right after backup returned for a batch naming n, whatever the source
\* held, matches_backup(n) returns True, and the entry's hash is the digest
\* of the bytes copied to the backup.
C2_BackupThenMatches ==
    \A n \in Names :
        BackedUpNow(n) =>
            /\ ReturnsTrue(matches_backup(dao.files, fs, n))
            /\ is_file(fs, SlotPath(n))
            /\ dao.files[n].hash = hexdigest(fs[SlotPath(n)].data)

\* C2 witness: a backup of n returned and refreshed a hash that was stale:
\* the registry file still holds another hash for n than the entry.
C2_Witness ==
    \E n \in Names :
        /\ BackedUpNow(n)
        /\ ReturnsTrue(matches_backup(dao.files, fs, n))
        /\ IsTrackedFile(Restarted(fs)[n])
        /\ Restarted(fs)[n].hash # dao.files[n].hash

\* C3: when the source of a tracked file holds other bytes than at the most
\* recent track or backup of its entry, matches_backup returns False.
C3_ChangedThenMismatch ==
    \A n \in Keys(dao.files) :
        (/\ hashedAt[n] # None
         /\ is_file(fs, SourcePath(n))
         /\ SourceContent(fs, n) # hashedAt[n][2])
            => ReturnsFalse(matches_backup(dao.files, fs, n))

\* C4: after a backup of n returned while the source held c, and whatever
\* the user did to the source since, restore(n) on the tracked file returns
\* a list with n and leaves the source a file holding c.
C4_RestoreAfterBackup ==
    \A n \in Keys(dao.files) :
        (/\ last.op = "restore" /\ n \in InBatch(last.args)
         /\ backedUp[n] # None)
            => /\ last.out.kind = "return"
               /\ n \in InBatch(last.out.value)
               /\ SourceContent(fs, n) = backedUp[n]

\* The tracked files whose source is a regular file with another hash than
\* the stored one.
Changed(files, disk) ==
    {n \in Keys(files) :
        /\ IsTrackedFile(files[n])
        /\ is_file(disk, files[n].path)
        /\ files[n].hash # calculate_file_hash(disk, files[n].path)}

\* C5: check() returns exactly the tracked files whose source is a regular
\* file with another hash than the stored one.
C5_CheckReturnsChanged ==
    last.op = "check" =>
        /\ last.out.kind = "return"
        /\ last.out.value = Changed(dao.files, fs)

\* C6: after track(n) inserted an entry and save() was called on a valid
\* registry, a restart (get_tracking_directory, load) has n in files with
\* the entry's field values.
C6_TrackedSurvivesRestart ==
    \A n \in Keys(dao.files) :
        (/\ last.op = "save" /\ last.valid
         /\ hashedAt[n] # None /\ hashedAt[n][1] = "track")
            => Restarted(fs)[n] = dao.files[n]

\* C7: save() then load(), with the registry file untouched in between,
\* leaves files as it was before save().
C7_SaveLoadRoundTrip ==
    last.op = "save" => load(dao.files, fs) = dao.files

\* C7 witness: save() returned True for a registry whose entry was re-hashed
\* by a backup of this session, and load() gives back the same files.
C7_Witness ==
    /\ last.op = "save" /\ last.out.value = TRUE
    /\ \E n \in Keys(dao.files) :
          hashedAt[n] # None /\ IsTrackedFile(dao.files[n])
    /\ load(dao.files, fs) = dao.files

\* C8: when backup returns, the registry file holds the refreshed hash of
\* every entry of the batch, so that a restart sees it.
C8_BackupPersists ==
    \A n \in Names :
        BackedUpNow(n) =>
            /\ IsTrackedFile(Restarted(fs)[n])
            /\ Restarted(fs)[n].hash = dao.files[n].hash

\* C9: track of a name that is a key of files returns the entry, leaves
\* files as it is and hashes nothing.
C9_TrackIdempotent ==
    [][\A n \in Keys(dao.files) :
          (last'.op = "track" /\ last'.args = <<n>>)
              => /\ dao'.files = dao.files
                 /\ last'.out.kind = "return"
                 /\ last'.out.value = dao.files[n]
                 /\ last'.hashed = {}]_vars

\* C9 witness: track was called for a tracked name whose source no longer
\* has the stored hash (modified or deleted since).
C9_Witness ==
    \E n \in Names :
        /\ last.op = "track" /\ last.args = <<n>> /\ n \in last.tracked
        /\ IsTrackedFile(dao.files[n])
        /\ dao.files[n].hash # calculate_file_hash(fs, SourcePath(n))

InvalidState == TrackingDAOException(INVALID_TRACKING_DIRECTORY)

\* C11: track called while the registry is not valid raises the
\* invalid-state failure and inserts nothing into files.
C11_TrackAssertsValidity ==
    (last.op = "track" /\ ~last.valid)
        => /\ last.out = InvalidState
           /\ Keys(dao.files) = last.tracked

\* C12: backup and restore called while the registry is not valid raise the
\* invalid-state failure, whatever the file names, and leave the file system
\* and files as they are.
C12_InvalidRefusedUntouched ==
    [][(last'.op \in {"backup", "restore"} /\ ~is_valid(fs))
          => /\ last'.out = InvalidState
             /\ fs' = fs
             /\ dao' = dao]_vars

\* C12 witness: backup was refused on a registry whose file is gone, for a
\* tracked file whose source is a regular file that differs from its backup
\* copy: the loop would have copied it.
C12_Witness ==
    \E n \in Names :
        /\ last.op = "backup" /\ n \in InBatch(last.args) /\ ~last.valid
        /\ last.out = InvalidState
        /\ IsTrackedFile(dao.files[n])
        /\ is_file(fs, SourcePath(n))
        /\ fs[SlotPath(n)] # fs[SourcePath(n)]

\* C13: backup on a valid registry whose first file name is no key of files
\* raises a TrackingDAOException of another kind than the invalid-state
\* failure, and changes neither the file system nor files.
C13_BackupUntrackedKind ==
    [][\A n \in Names \ Keys(dao.files) :
          (/\ last'.op = "backup" /\ is_valid(fs)
           /\ last'.args # <<>> /\ Head(last'.args) = n)
              => /\ last'.out.exception = "TrackingDAOException"
                 /\ last'.out.error_code # INVALID_TRACKING_DIRECTORY
                 /\ fs' = fs
                 /\ dao'.files = dao.files]_vars

\* C14: restore on a valid registry whose first file name is no key of files
\* raises a TrackingDAOException and does not write the source of that name.
C14_RestoreUntrackedTyped ==
    [][\A n \in Names \ Keys(dao.files) :
          (/\ last'.op = "restore" /\ is_valid(fs)
           /\ last'.args # <<>> /\ Head(last'.args) = n)
              => /\ last'.out.exception = "TrackingDAOException"
                 /\ fs'[SourcePath(n)] = fs[SourcePath(n)]]_vars

\* C15: backup on a valid registry of a tracked file whose source is missing
\* or a directory, or whose backup path is an existing directory, raises the
\* invalid-backup-target failure, copies nothing and keeps the entry's hash.
C15_BackupTargetRefused ==
    [][\A n \in Keys(dao.files) :
          (/\ IsTrackedFile(dao.files[n])
           /\ last'.op = "backup" /\ is_valid(fs)
           /\ last'.args # <<>> /\ Head(last'.args) = n
           /\ \/ ~exists(fs, dao.files[n].path)
              \/ is_dir(fs, dao.files[n].path)
              \/ is_dir(fs, dao.files[n].backup_path))
              => /\ last'.out = TrackingDAOException(INVALID_TRACKING_FILE)
                 /\ fs' = fs
                 /\ dao'.files[n].hash = dao.files[n].hash]_vars

\* C16: restore on a valid registry of one tracked file with nothing at its
\* backup slot returns a list without the entry and leaves the file system
\* as it is.
C16_RestoreWithoutBackupSkips ==
    [][\A n \in Keys(dao.files) :
          (/\ IsTrackedFile(dao.files[n])
           /\ last'.op = "restore" /\ is_valid(fs)
           /\ last'.args = <<n>>
           /\ ~exists(fs, SlotPath(n)))
              => /\ last'.out.kind = "return"
                 /\ n \notin InBatch(last'.out.value)
                 /\ fs' = fs]_vars

\* C17: restore, whatever its arguments and outcome, leaves files (keys and
\* every entry's hash) and the registry file as they are.
C17_RestoreKeepsRegistry ==
    [][last'.op = "restore"
          => /\ dao' = dao
             /\ fs'[TrackingFile] = fs[TrackingFile]]_vars

\* C17 witness: restore returned an entry whose source now holds other bytes
\* than the entry's hash stands for.
C17_Witness ==
    \E n \in Names :
        /\ last.op = "restore" /\ last.out.kind = "return"
        /\ n \in InBatch(last.out.value)
        /\ IsTrackedFile(dao.files[n])
        /\ is_file(fs, SourcePath(n))
        /\ dao.files[n].hash # calculate_file_hash(fs, SourcePath(n))

\* The registry file is a regular file holding a JSON document.
Parses(disk) ==
    is_file(disk, TrackingFile) /\ ~json_load_fails(disk[TrackingFile].data)

\* C18: load raises nothing; it leaves files as it is when the registry file
\* is missing, cannot be read or does not parse, and replaces files by the
\* decoded document otherwise.
C18_LoadDegradesSilently ==
    [][last'.op = "load"
          => /\ last'.out = Return(None)
             /\ ~Parses(fs) => dao'.files = dao.files
             /\ Parses(fs) => dao'.files = json_load(fs[TrackingFile].data)]_vars

\* C18 witness: load was called with a TrackedFile entry in files while the
\* registry file was missing, and the entry is still there.
C18_Witness ==
    \E n \in Names :
        /\ last.op = "load"
        /\ ~exists(fs, TrackingFile)
        /\ IsTrackedFile(dao.files[n])

\* C19: initialise_tracking on an existing directory, in every state the
\* operations lead to, returns a registry with empty files that is valid,
\* and the registry file holds the empty mapping.
C19_InitialiseAlwaysValid ==
    (last.op = "initialise_tracking" /\ is_dir(fs, Directory))
        => /\ ReturnsTrue(last.out)
           /\ dao.loaded /\ dao.files = EmptyFiles
           /\ is_valid(fs)
           /\ fs[TrackingFile].data = json_dump(EmptyFiles)

\* C20: get_tracking_directory on an existing directory without metadata
\* directory or without registry file creates them and returns a registry
\* that is valid; on a directory that is missing or a file it returns None.
C20_LocateLazyInitialises ==
    [][last'.op = "get_tracking_directory"
          => /\ (/\ is_dir(fs, Directory)
                 /\ ~exists(fs, TrackingDirectory) \/ ~exists(fs, TrackingFile))
                    => ReturnsTrue(last'.out) /\ dao'.loaded /\ is_valid(fs')
             /\ ~is_dir(fs, Directory)
                    => ReturnsFalse(last'.out) /\ ~dao'.loaded]_vars

\* The operations of the registry whose failures the shell's handlers catch
\* as TrackingDAOException.
TypedOperations == {"track", "backup", "restore", "matches_backup"}

\* C21: every failure of track, backup, restore and matches_backup is a
\* TrackingDAOException.
C21_FailuresAreTyped ==
    (last.op \in TypedOperations /\ last.out.kind = "raise")
        => last.out.exception = "TrackingDAOException"

\* C22: when backup on a valid registry fails on a file name of the batch
\* that is no key of files, no file was copied and no entry's hash changed:
\* the file system and files are as before the call.
C22_BatchAllOrNothing ==
    [][(/\ last'.op = "backup" /\ is_valid(fs)
        /\ InBatch(last'.args) \ Keys(dao.files) # {}
        /\ last'.out = TrackingDAOException(INVALID_TRACKING_DIRECTORY))
          => /\ fs' = fs
             /\ dao'.files = dao.files]_vars

\* The TrackedFile that track's call of try_create_tracked_file makes for
\* file name n.
CreatedByTrack(disk, n) ==
    try_create_tracked_file(disk, joinpath(Directory, n), TrackingDirectory)

\* C23: the entry track creates for a file name has the file of that name
\* inside the metadata directory as its backup path, and never the metadata
\* directory itself.
C23_BackupPathIsOwnSlot ==
    \A n \in Names :
        (TrackedAfresh(n) /\ IsTrackedFile(CreatedByTrack(fs, n)))
            => /\ CreatedByTrack(fs, n).backup_path
                      = joinpath(TrackingDirectory, n)
               /\ CreatedByTrack(fs, n).backup_path # TrackingDirectory

\* The operations of one registry object.
RegistryOperations ==
    {"track", "backup", "restore", "matches_backup", "save", "load"}

\* C24: no operation of a registry object removes a key of files.
C24_KeysNeverRemoved ==
    [][last'.op \in RegistryOperations
          => Keys(dao.files) \subseteq Keys(dao'.files)]_vars

\* C25: when save returns False, the registry file is as it was before the
\* call.
C25_FailedSaveKeepsFile ==
    [][(last'.op = "save" /\ ReturnsFalse(last'.out))
          => fs'[TrackingFile] = fs[TrackingFile]]_vars

====
